---- MODULE Spec2Model ----
(***************************************************************************)
(* A model of reset_elo_usb.py: the USB bus reset utility for Elo          *)
(* TouchSystems devices.                                                   *)
(*                                                                         *)
(* The module has two public entry points, both modelled:                  *)
(*   main(reset_delay, vendor_id)           (src lines 235-291)            *)
(*   reset_buses_parallel(buses, delay)     (src lines 156-219)            *)
(* main calls find_elo_buses (lines 74-114).  The calling thread is one    *)
(* process whose position is pc; the thread pool's workers are modelled by *)
(* WorkerStart / WorkerFinish acting on the executor's FIFO work queue.    *)
(*                                                                         *)
(* Optional values (Optional[float], "no return value yet") are sequences  *)
(* of length 0 or 1: <<>> is None, <<v>> is the value v.                    *)
(***************************************************************************)
EXTENDS Integers, Sequences, FiniteSets, TLC

\* ------------------------------------------------------------------ bounds
MaxBus == 2          \* bus numbers are 1..MaxBus
MaxDevices == 3      \* at most this many attached devices are enumerated

\* ------------------------------------------------------- program constants
ELO_VENDOR_ID == 1255        \* 0x04E7
DEFAULT_RESET_DELAY == 1     \* 1.0 second

BusNums == 1..MaxBus
Vendors == {0, ELO_VENDOR_ID, ELO_VENDOR_ID + 1}
Device == [vendor : Vendors, bus : BusNums]
DeviceLists == UNION {[1..n -> Device] : n \in 0..MaxDevices}

\* The arguments a caller may give to main: None or a value.
DelayArgs == {<<>>, <<0>>, <<2>>}
VendorArgs == {<<>>, <<0>>, <<ELO_VENDOR_ID + 1>>}

VARIABLES
    pc,           \* position of the calling (main) thread
    entry,        \* which entry point was called: "none", "main", "reset"
    reset_delay,  \* main's argument reset_delay (Optional)
    vendor_id,    \* main's argument vendor_id (Optional)
    delay,        \* main's local delay / reset_buses_parallel's reset_delay
    vid,          \* main's local vid, the vendor id given to find_elo_buses
    root,         \* what check_permissions() returned (Optional)
    devices,      \* find_elo_buses: the bus numbers of the matching devices
    di,           \* find_elo_buses: index of the next device of the loop
    buses,        \* find_elo_buses: the dict bus number -> USBBusInfo
    pathExists,   \* environment: does SysfsPath(b) exist now
    pathChanged,  \* history: a control path appeared or vanished in the pass
    checks,       \* history: what each sysfs_path.exists() of the pass gave
    findRet,      \* find_elo_buses' return value (Optional set)
    findExc,      \* the exception find_elo_buses raised, or "none"
    exitCode,     \* main's return value (Optional)
    inBuses,      \* reset_buses_parallel: bus numbers of the argument buses
    order,        \* reset_buses_parallel: iteration order of the set buses
    ci,           \* reset_buses_parallel: index of the running for loop
    disable,      \* state of each bus's phase-1 write task
    enable,       \* state of each bus's phase-2 write task
    max_workers,  \* the executor's max_workers; None: no executor created
    queue,        \* the executor's work queue, FIFO, of <<phase, bus>>
    attempts,     \* history: executor.submit calls per <<phase, bus>>
    dres,         \* what future.result gave for each disable future
    eres,         \* what future.result gave for each enable future
    success_count,
    authorized,   \* environment: content of each bus's control file
    cret,         \* reset_buses_parallel's return value (Optional)
    cexc          \* the exception reset_buses_parallel raised, or "none"

vars == <<pc, entry, reset_delay, vendor_id, delay, vid, root, devices, di,
          buses, pathExists, pathChanged, checks, findRet, findExc,
          exitCode, inBuses, order, ci, disable, enable, max_workers, queue,
          attempts, dres, eres, success_count, authorized, cret, cexc>>

mainVars == <<reset_delay, vendor_id, vid, root, exitCode>>
findVars == <<devices, di, buses, pathChanged, checks, findRet, findExc>>
poolVars == <<disable, enable, max_workers, queue, attempts, authorized>>
coordVars == <<inBuses, order, ci, dres, eres, success_count, cret, cexc>>

\* ----------------------------------------------------------------- helpers
Some(x) == <<x>>
None == <<>>

\* Python truthiness of an Optional number: None and 0 are falsy.
Truthy(x) == x # None /\ x[1] # 0

\* `x or d` (lines 252-253).
OrDefault(x, d) == IF Truthy(x) THEN x[1] ELSE d

\* SYSFS_USB_PATH / f"usb{bus_num}" / "authorized" (line 96).
SysfsPath(b) == <<"/sys/bus/usb/devices", b, "authorized">>

\* The dataclass USBBusInfo (lines 42-47).
USBBusInfo(b, n) ==
    [bus_number |-> b, device_count |-> n, sysfs_path |-> SysfsPath(b)]

\* @dataclass with the default eq=True and frozen=False sets __hash__ to
\* None: instances of USBBusInfo are unhashable (lines 42-43).
Hashable(info) == FALSE

\* usb.core.find(find_all=True, idVendor=vendor_id): the attached devices of
\* that vendor, as their bus numbers, in enumeration order (line 91, 94).
RECURSIVE Matching(_, _)
Matching(att, v) ==
    IF att = <<>> THEN <<>>
    ELSE IF Head(att).vendor = v
         THEN <<Head(att).bus>> \o Matching(Tail(att), v)
         ELSE Matching(Tail(att), v)

Range(f) == {f[x] : x \in DOMAIN f}

Perms(S) == {p \in [1..Cardinality(S) -> S] : Range(p) = S}

EmptyDict == [b \in {} |-> USBBusInfo(b, 0)]

\* ------------------------------------------------------------------- Init
Init ==
    /\ pc = "start"
    /\ entry = "none"
    /\ reset_delay = None
    /\ vendor_id = None
    /\ delay = DEFAULT_RESET_DELAY
    /\ vid = ELO_VENDOR_ID
    /\ root = None
    /\ devices = <<>>
    /\ di = 1
    /\ buses = EmptyDict
    /\ pathExists = [b \in BusNums |-> TRUE]
    /\ pathChanged = FALSE
    /\ checks = [b \in BusNums |-> <<>>]
    /\ findRet = None
    /\ findExc = "none"
    /\ exitCode = None
    /\ inBuses = {}
    /\ order = <<>>
    /\ ci = 1
    /\ disable = [b \in BusNums |-> "none"]
    /\ enable = [b \in BusNums |-> "none"]
    /\ max_workers = None
    /\ queue = <<>>
    /\ attempts = [t \in {1, 2} \X BusNums |-> 0]
    /\ dres = [b \in BusNums |-> "none"]
    /\ eres = [b \in BusNums |-> "none"]
    /\ success_count = 0
    /\ authorized = [b \in BusNums |-> "1"]
    /\ cret = None
    /\ cexc = "none"

\* --------------------------------------------------------- find_elo_buses
\* FindBody with the repeat sighting losing its count (line 109 dropped).
FindBodyNoCount(bs, b, ex) ==
    IF b \notin DOMAIN bs
    THEN IF ~ex
         THEN bs
         ELSE [x \in DOMAIN bs \cup {b} |->
                 IF x = b THEN USBBusInfo(b, 1) ELSE bs[x]]
    ELSE bs

\* FindBody without the existence check of lines 99-101.
FindBodyNoExistsCheck(bs, b, ex) ==
    IF b \notin DOMAIN bs
    THEN [x \in DOMAIN bs \cup {b} |->
            IF x = b THEN USBBusInfo(b, 1) ELSE bs[x]]
    ELSE [bs EXCEPT ![b].device_count = @ + 1]

\* One iteration of `for device in devices` (lines 93-109): the dict after
\* a device on bus b, whose control path exists iff ex.
FindBody(bs, b, ex) ==
    IF b \notin DOMAIN bs
    THEN IF ~ex
         THEN bs
         ELSE [x \in DOMAIN bs \cup {b} |->
                 IF x = b THEN USBBusInfo(b, 1) ELSE bs[x]]
    ELSE [bs EXCEPT ![b].device_count = @ + 1]

\* Lines 95-99: sysfs_path.exists() is called for a device whose bus is not
\* in the dict; cs records what each call gave, per bus, in order.
FindChecks(cs, bs, b, ex) ==
    IF b \notin DOMAIN bs THEN [cs EXCEPT ![b] = Append(@, ex)] ELSE cs

\* set(buses.values()) (line 114): a TypeError unless every value is
\* hashable; set() of no values is the empty set.
SetOfValues(bs) ==
    IF \A v \in Range(bs) : Hashable(v)
    THEN [exc |-> "none", val |-> Some(Range(bs))]
    ELSE [exc |-> "TypeError", val |-> None]

\* ------------------------------------------------------------------- main
\* check_permissions (lines 222-232).
check_permissions(euid) == euid = 0

\* Lines 273-281: the exit code from the count and the number of buses.
ExitCodeOf(sc, n) ==
    IF sc = n THEN 0 ELSE IF sc > 0 THEN 2 ELSE 1

\* The except clauses with a discovery error reported as success.
ExitCodeOfExceptionDiscoveryOk(e) ==
    IF e = "USBBusResetError" THEN 0
    ELSE IF e = "KeyboardInterrupt" THEN 130
    ELSE 1

\* main's except clauses (lines 283-291).
ExitCodeOfException(e) ==
    IF e = "USBBusResetError" THEN 1
    ELSE IF e = "KeyboardInterrupt" THEN 130
    ELSE 1

\* MainCall logging the missing privilege and going on (line 249 dropped).
MainCallNoGate ==
    /\ pc = "start"
    /\ \E rd \in DelayArgs, vi \in VendorArgs, euid \in {0, 1} :
         /\ entry' = "main"
         /\ reset_delay' = rd
         /\ vendor_id' = vi
         /\ root' = Some(check_permissions(euid))
         /\ delay' = OrDefault(rd, DEFAULT_RESET_DELAY)
         /\ vid' = OrDefault(vi, ELO_VENDOR_ID)
         /\ pc' = "enumerate"
         /\ UNCHANGED exitCode
    /\ UNCHANGED <<findVars, pathExists, poolVars, coordVars>>

\* Lines 246-253: the permission check and the defaults.
MainCall ==
    /\ pc = "start"
    /\ \E rd \in DelayArgs, vi \in VendorArgs, euid \in {0, 1} :
         /\ entry' = "main"
         /\ reset_delay' = rd
         /\ vendor_id' = vi
         /\ root' = Some(check_permissions(euid))
         /\ IF ~check_permissions(euid)
            THEN /\ exitCode' = Some(1)
                 /\ pc' = "main_done"
                 /\ UNCHANGED <<delay, vid>>
            ELSE /\ delay' = OrDefault(rd, DEFAULT_RESET_DELAY)
                 /\ vid' = OrDefault(vi, ELO_VENDOR_ID)
                 /\ pc' = "enumerate"
                 /\ UNCHANGED exitCode
    /\ UNCHANGED <<findVars, pathExists, poolVars, coordVars>>

\* Lines 87-91: the enumeration, which either fails (lines 111-112, then
\* main's lines 283-285) or yields the matching devices.  The host is met as
\* it is at that moment: any devices attached, any control paths present.
Enumerate ==
    /\ pc = "enumerate"
    /\ \/ /\ findExc' = "USBBusResetError"
          /\ exitCode' = Some(ExitCodeOfException("USBBusResetError"))
          /\ pc' = "main_done"
          /\ UNCHANGED <<devices, di, buses, pathExists>>
       \/ /\ \E att \in DeviceLists : devices' = Matching(att, vid)
          /\ pathExists' \in [BusNums -> BOOLEAN]
          /\ di' = 1
          /\ buses' = EmptyDict
          /\ pc' = "find_loop"
          /\ UNCHANGED <<findExc, exitCode>>
    /\ UNCHANGED <<entry, reset_delay, vendor_id, delay, vid, root,
                   pathChanged, checks, findRet, poolVars, coordVars>>

\* Lines 93-109: one iteration of the loop over the matching devices.
FindStep ==
    /\ pc = "find_loop"
    /\ di <= Len(devices)
    /\ buses' = FindBody(buses, devices[di], pathExists[devices[di]])
    /\ checks' = FindChecks(checks, buses, devices[di],
                            pathExists[devices[di]])
    /\ di' = di + 1
    /\ UNCHANGED <<pc, entry, mainVars, delay, devices, pathExists,
                   pathChanged, findRet, findExc, poolVars, coordVars>>

\* Environment: a bus's control path appears or vanishes during the pass
\* (the only time the program looks at it: sysfs_path.exists(), line 99).
PathChange ==
    /\ pc = "find_loop"
    /\ di <= Len(devices)
    /\ \E b \in BusNums :
         pathExists' = [pathExists EXCEPT ![b] = ~pathExists[b]]
    /\ pathChanged' = TRUE
    /\ UNCHANGED <<pc, entry, mainVars, delay, devices, di, buses, checks,
                   findRet, findExc, poolVars, coordVars>>

\* --------------------------------------------------- reset_buses_parallel
\* The outcomes of a write task: write_text returns, or raises an OSError
\* (a PermissionError is an OSError, and nothing in reset_buses_parallel
\* tells the two apart).
Done == {"ok", "OSError"}

\* `except TimeoutError` in the place of `except Exception`.
CaughtOnlyTimeout(e) == e = "TimeoutError"

\* `except Exception` (lines 193, 216): OSError (with PermissionError) and
\* concurrent.futures.TimeoutError are Exceptions, KeyboardInterrupt is not.
CaughtByExceptException(e) == e \in {"OSError", "TimeoutError"}

\* Write tasks a worker thread is executing.
Active ==
    {<<1, b>> : b \in {x \in BusNums : disable[x] \in {"running", "hung"}}}
    \cup
    {<<2, b>> : b \in {x \in BusNums : enable[x] \in {"running", "hung"}}}

\* Write tasks submitted and not finished.
InFlight(task) == {b \in BusNums : task[b] \in {"queued", "running", "hung"}}

\* EnterReset without the guard of lines 171-173: ThreadPoolExecutor
\* refuses max_workers = 0 with a ValueError.
EnterResetNoEmptyGuard(bs) ==
    /\ inBuses' = bs
    /\ ci' = 1
    /\ cret' = None
    /\ IF bs = {}
       THEN /\ order' = <<>>
            /\ cexc' = "ValueError"
            /\ max_workers' = None
            /\ pc' = "raised"
       ELSE /\ \E o \in Perms(bs) : order' = o
            /\ cexc' = "none"
            /\ max_workers' = Some(Cardinality(bs))
            /\ pc' = "p1_submit"

\* Lines 171-178: entering reset_buses_parallel with the buses bs.
EnterReset(bs) ==
    /\ inBuses' = bs
    /\ ci' = 1
    /\ cexc' = "none"
    /\ IF bs = {}
       THEN /\ order' = <<>>
            /\ cret' = Some(0)
            /\ max_workers' = None
            /\ pc' = "returned"
       ELSE /\ \E o \in Perms(bs) : order' = o
            /\ cret' = None
            /\ max_workers' = Some(Cardinality(bs))
            /\ pc' = "p1_submit"

\* Line 114 and, back in main, lines 259-271 and 289-291.
FindReturn ==
    /\ pc = "find_loop"
    /\ di > Len(devices)
    /\ findRet' = SetOfValues(buses).val
    /\ findExc' = SetOfValues(buses).exc
    /\ IF SetOfValues(buses).exc # "none"
       THEN /\ exitCode' = Some(ExitCodeOfException(SetOfValues(buses).exc))
            /\ pc' = "main_done"
            /\ UNCHANGED <<inBuses, order, ci, cret, cexc, max_workers>>
       ELSE IF SetOfValues(buses).val[1] = {}
       THEN /\ exitCode' = Some(0)
            /\ pc' = "main_done"
            /\ UNCHANGED <<inBuses, order, ci, cret, cexc, max_workers>>
       ELSE /\ EnterReset(DOMAIN buses)
            /\ UNCHANGED exitCode
    /\ UNCHANGED <<entry, reset_delay, vendor_id, delay, vid, root, devices,
                   di, buses, pathExists, pathChanged, checks, disable,
                   enable, queue, attempts, dres, eres, success_count,
                   authorized>>

\* A direct call reset_buses_parallel(buses, reset_delay).
ResetCall ==
    /\ pc = "start"
    /\ entry' = "reset"
    /\ delay' = DEFAULT_RESET_DELAY
    /\ \E bs \in SUBSET BusNums : EnterReset(bs)
    /\ UNCHANGED <<mainVars, findVars, pathExists, disable, enable, queue,
                   attempts, dres, eres, success_count, authorized>>

\* The position after the for loop at index ci: the next iteration, or the
\* statement after the loop.
LoopNext(after) ==
    IF ci = Len(order)
    THEN pc' = after /\ ci' = 1
    ELSE pc' = pc /\ ci' = ci + 1

\* Lines 181-186: submit the disable write of the next bus.
SubmitDisable ==
    /\ pc = "p1_submit"
    /\ disable' = [disable EXCEPT ![order[ci]] = "queued"]
    /\ queue' = Append(queue, <<1, order[ci]>>)
    /\ attempts' = [attempts EXCEPT ![<<1, order[ci]>>] = @ + 1]
    /\ LoopNext("p1_wait")
    /\ UNCHANGED <<entry, mainVars, delay, findVars, pathExists, inBuses,
                   order, enable, max_workers, dres, eres, success_count,
                   authorized, cret, cexc>>

\* What future.result(timeout=1.0) gives for a task in state st: its
\* outcome once it is done, a TimeoutError while it is not.
FutureResults(st) == IF st \in Done THEN {st} ELSE {"TimeoutError"}

\* Lines 189-194: wait for the next disable future.
WaitDisable ==
    /\ pc = "p1_wait"
    /\ \E r \in FutureResults(disable[order[ci]]) :
         /\ dres' = [dres EXCEPT ![order[ci]] = r]
         /\ IF r = "ok" \/ CaughtByExceptException(r)
            THEN LoopNext("sleep") /\ UNCHANGED cexc
            ELSE pc' = "shutdown" /\ cexc' = r /\ UNCHANGED ci
    /\ UNCHANGED <<entry, mainVars, delay, findVars, pathExists, inBuses,
                   order, poolVars, eres, success_count, cret>>

\* Lines 197-198: time.sleep(reset_delay).
Sleep ==
    /\ pc = "sleep"
    /\ pc' = "p2_submit"
    /\ UNCHANGED <<entry, mainVars, delay, findVars, pathExists, poolVars,
                   coordVars>>

\* Lines 202-207: submit the enable write of the next bus.
SubmitEnable ==
    /\ pc = "p2_submit"
    /\ enable' = [enable EXCEPT ![order[ci]] = "queued"]
    /\ queue' = Append(queue, <<2, order[ci]>>)
    /\ attempts' = [attempts EXCEPT ![<<2, order[ci]>>] = @ + 1]
    /\ LoopNext("p2_wait")
    /\ UNCHANGED <<entry, mainVars, delay, findVars, pathExists, inBuses,
                   order, disable, max_workers, dres, eres, success_count,
                   authorized, cret, cexc>>

\* WaitEnable submitting the enable write again when it raised.
WaitEnableRetry ==
    /\ pc = "p2_wait"
    /\ \E r \in FutureResults(enable[order[ci]]) :
         /\ eres' = [eres EXCEPT ![order[ci]] = r]
         /\ success_count' = IF r = "ok" THEN success_count + 1
                             ELSE success_count
         /\ IF r = "OSError"
            THEN /\ enable' = [enable EXCEPT ![order[ci]] = "queued"]
                 /\ queue' = Append(queue, <<2, order[ci]>>)
                 /\ attempts' = [attempts EXCEPT ![<<2, order[ci]>>] = @ + 1]
                 /\ UNCHANGED <<pc, ci>>
            ELSE /\ LoopNext("shutdown")
                 /\ UNCHANGED <<enable, queue, attempts>>
    /\ UNCHANGED <<entry, mainVars, delay, findVars, pathExists, inBuses,
                   order, disable, max_workers, authorized, dres, cret, cexc>>

\* Lines 210-217: wait for the next enable future and count it.
WaitEnable ==
    /\ pc = "p2_wait"
    /\ \E r \in FutureResults(enable[order[ci]]) :
         /\ eres' = [eres EXCEPT ![order[ci]] = r]
         /\ success_count' = IF r = "ok" THEN success_count + 1
                             ELSE success_count
         /\ IF r = "ok" \/ CaughtByExceptException(r)
            THEN LoopNext("shutdown") /\ UNCHANGED cexc
            ELSE pc' = "shutdown" /\ cexc' = r /\ UNCHANGED ci
    /\ UNCHANGED <<entry, mainVars, delay, findVars, pathExists, inBuses,
                   order, poolVars, dres, cret>>

\* Environment: SIGINT while the calling thread is blocked in
\* future.result (lines 191, 213) or in time.sleep (line 198).  The
\* KeyboardInterrupt is no Exception, so lines 193 and 216 do not catch it:
\* it leaves the with block.
Interrupt ==
    /\ pc \in {"p1_wait", "sleep", "p2_wait"}
    /\ pc' = "shutdown"
    /\ cexc' = "KeyboardInterrupt"
    /\ UNCHANGED <<entry, mainVars, delay, findVars, pathExists, poolVars,
                   inBuses, order, ci, dres, eres, success_count, cret>>

\* Leaving the with block (line 178): ThreadPoolExecutor.__exit__ calls
\* shutdown(wait=True), which joins the workers, so it ends only when no
\* submitted task is left.  Then line 219 returns the count (or the
\* exception goes on), and main, if it is the caller, derives its exit code
\* (lines 273-281, 283-291).
Shutdown ==
    /\ pc = "shutdown"
    /\ InFlight(disable) = {}
    /\ InFlight(enable) = {}
    /\ cret' = IF cexc = "none" THEN Some(success_count) ELSE None
    /\ IF entry = "main"
       THEN /\ pc' = "main_done"
            /\ exitCode' =
                 IF cexc = "none"
                 THEN Some(ExitCodeOf(success_count, Cardinality(inBuses)))
                 ELSE Some(ExitCodeOfException(cexc))
       ELSE /\ pc' = IF cexc = "none" THEN "returned" ELSE "raised"
            /\ UNCHANGED exitCode
    /\ UNCHANGED <<entry, reset_delay, vendor_id, delay, vid, root, findVars,
                   pathExists, poolVars, inBuses, order, ci, dres, eres,
                   success_count, cexc>>

\* ------------------------------------------------------ the pool's workers
\* A worker thread takes the oldest work item; at most max_workers threads
\* exist.  The write it starts either completes some time ("running") or
\* blocks for ever ("hung").
WorkerStart ==
    /\ queue # <<>>
    /\ Cardinality(Active) < max_workers[1]
    /\ \E st \in {"running", "hung"} :
         IF Head(queue)[1] = 1
         THEN /\ disable' = [disable EXCEPT ![Head(queue)[2]] = st]
              /\ UNCHANGED enable
         ELSE /\ enable' = [enable EXCEPT ![Head(queue)[2]] = st]
              /\ UNCHANGED disable
    /\ queue' = Tail(queue)
    /\ UNCHANGED <<pc, entry, mainVars, delay, findVars, pathExists,
                   max_workers, attempts, authorized, coordVars>>

\* b.sysfs_path.write_text("0\n") / ("1\n") (lines 183, 204) ends: the
\* control file takes the value, or the write raises.
WorkerFinish ==
    /\ \E t \in Active, r \in Done :
         /\ IF t[1] = 1
            THEN /\ disable[t[2]] = "running"
                 /\ disable' = [disable EXCEPT ![t[2]] = r]
                 /\ UNCHANGED enable
            ELSE /\ enable[t[2]] = "running"
                 /\ enable' = [enable EXCEPT ![t[2]] = r]
                 /\ UNCHANGED disable
         /\ authorized' =
              IF r = "ok"
              THEN [authorized EXCEPT ![t[2]] = IF t[1] = 1 THEN "0" ELSE "1"]
              ELSE authorized
    /\ UNCHANGED <<pc, entry, mainVars, delay, findVars, pathExists,
                   max_workers, queue, attempts, coordVars>>

\* ------------------------------------------------------- the specification
MainThread ==
    \/ MainCall
    \/ Enumerate
    \/ FindStep
    \/ FindReturn
    \/ ResetCall
    \/ SubmitDisable
    \/ WaitDisable
    \/ Sleep
    \/ SubmitEnable
    \/ WaitEnable
    \/ Shutdown

Workers == WorkerStart \/ WorkerFinish

Next == MainThread \/ Workers \/ PathChange \/ Interrupt

Spec == Init /\ [][Next]_vars

\* The main thread is scheduled, and so are the pool's threads; a write that
\* is "hung" has no step to take.
FairSpec == Spec /\ WF_vars(MainThread) /\ WF_vars(Workers)

\* ================================================================ claims
\* The buses the caller saw both phases succeed for.
FullyReset == {b \in inBuses : dres[b] = "ok" /\ eres[b] = "ok"}

\* The number of devices on bus b among the first k matching devices.
Sightings(b, k) == Cardinality({i \in 1..k : devices[i] = b})

\* main ran privileged and the enumeration itself worked.
MainDiscovered ==
    /\ entry = "main"
    /\ pc = "main_done"
    /\ root = Some(TRUE)
    /\ findExc # "USBBusResetError"

NoWriteIssued ==
    /\ max_workers = None
    /\ queue = <<>>
    /\ \A b \in BusNums : disable[b] = "none" /\ enable[b] = "none"
    /\ \A b \in BusNums : authorized[b] = "1"
    /\ \A t \in DOMAIN attempts : attempts[t] = 0

\* C1: no enable write is submitted while a disable write of any bus is
\* still queued or running: once some bus has an enable task, every disable
\* task has completed.
C1_NoEnableBeforeAllDisablesDone ==
    (\E b \in BusNums : enable[b] # "none") => InFlight(disable) = {}

\* C2: the count reset_buses_parallel returns is the number of buses whose
\* disable and enable were both seen to succeed.
C2_CountIsBothPhases ==
    cret # None => cret[1] = Cardinality(FullyReset)

\* C3: the exit code main derives from the coordinator's count is 0 exactly
\* when every targeted bus was fully reset (or none was targeted), 2 when
\* some but not all were, 1 when none of at least one was.
C3_ExitCodeByOutcomes ==
    (cret # None /\ inBuses # {}) =>
        ExitCodeOf(cret[1], Cardinality(inBuses)) =
            (IF FullyReset = inBuses THEN 0
             ELSE IF FullyReset # {} THEN 2 ELSE 1)

\* C4: when discovery accumulated descriptors, find_elo_buses returns them as
\* a set, the coordinator gets them, every such bus has its disable and its
\* enable write issued, and with no write failing main returns 0.
C4_DiscoveredBusesAreReset ==
    (MainDiscovered /\ DOMAIN buses # {}) =>
        /\ findRet = Some(Range(buses))
        /\ inBuses = DOMAIN buses
        /\ \A b \in DOMAIN buses : disable[b] # "none" /\ enable[b] # "none"
        /\ (\A b \in DOMAIN buses : dres[b] = "ok" /\ eres[b] = "ok")
             => exitCode = Some(0)

\* A submitted write of bus b that no worker can take, every thread of the
\* pool being inside a write of another bus.
BlockedByOthers(b) ==
    /\ disable[b] = "queued" \/ enable[b] = "queued"
    /\ Cardinality(Active) = max_workers[1]
    /\ \A t \in Active : t[2] # b

\* C5: whatever the disable writes did, once phase 2 has been submitted every
\* bus of the input has an enable write issued, and no write of a bus is ever
\* held back by the writes of other buses.
C5_EnableIssuedAndNeverBlocked ==
    /\ (pc \in {"p2_wait", "shutdown", "returned"} /\ cexc = "none") =>
           \A b \in inBuses : enable[b] # "none"
    /\ \A b \in inBuses : ~BlockedByOthers(b)

\* C6: no OSError, PermissionError or timeout of a write leaves
\* reset_buses_parallel: it returns a count between 0 and the number of
\* buses, having collected both futures of every bus.
C6_WriteFailuresAreCaptured ==
    /\ cexc \notin {"OSError", "PermissionError", "TimeoutError"}
    /\ pc = "returned" =>
          /\ cret # None
          /\ cret[1] \in 0..Cardinality(inBuses)
          /\ \A b \in inBuses : dres[b] # "none" /\ eres[b] # "none"

C6_Witness ==
    /\ pc = "returned"
    /\ \E a \in inBuses, b \in inBuses :
         /\ a # b
         /\ dres[a] = "OSError"
         /\ eres[a] = "OSError"
         /\ dres[b] = "TimeoutError"
         /\ eres[b] = "ok"
    /\ cret = Some(1)

\* C7: reset_buses_parallel eventually returns, also when a write never
\* completes.
C7_EventuallyReturns ==
    (entry = "reset") ~> (pc \in {"returned", "raised"})

\* C8: with control-path existence fixed during the pass, the dict holds one
\* descriptor for each bus number sighted so far whose control path exists,
\* none for any other, and its device_count is the number of matching
\* devices seen on that bus.
C8_OneDescriptorPerBusWithCount ==
    (entry = "main" /\ ~pathChanged) =>
        \A b \in BusNums :
            IF pathExists[b] /\ Sightings(b, di - 1) > 0
            THEN /\ b \in DOMAIN buses
                 /\ buses[b] = USBBusInfo(b, Sightings(b, di - 1))
                 /\ Cardinality({v \in Range(buses) : v.bus_number = b}) = 1
            ELSE b \notin DOMAIN buses

C8_Witness ==
    /\ pc = "main_done"
    /\ ~pathChanged
    /\ Cardinality(DOMAIN buses) = 2
    /\ \E b \in DOMAIN buses : buses[b].device_count = 2

\* C9: with control-path existence fixed during the pass, a bus whose control
\* path is missing has no descriptor and no write; every descriptor carries
\* its bus's control path; and a pass that only met such buses ends without
\* an error, with the empty set.
C9_MissingPathBusIsAbsent ==
    (entry = "main" /\ ~pathChanged) =>
        /\ \A b \in BusNums :
              ~pathExists[b] =>
                  /\ b \notin DOMAIN buses
                  /\ b \notin inBuses
                  /\ disable[b] = "none" /\ enable[b] = "none"
        /\ \A b \in DOMAIN buses : buses[b].sysfs_path = SysfsPath(b)
        /\ (MainDiscovered /\ \A i \in 1..Len(devices) : ~pathExists[devices[i]])
              => findExc = "none" /\ findRet = Some({}) /\ exitCode = Some(0)

C9_Witness ==
    /\ MainDiscovered
    /\ ~pathChanged
    /\ Len(devices) >= 2
    /\ \A i \in 1..Len(devices) : ~pathExists[devices[i]]
    /\ \E b \in BusNums : pathExists[b]

\* C10: with no matching device find_elo_buses returns the empty set and main
\* returns 0 with nothing written; reset_buses_parallel of the empty set
\* returns 0 at once, without an executor and without a write.
C10_EmptyIsSuccessWithoutWrites ==
    /\ (MainDiscovered /\ devices = <<>>) =>
          /\ findExc = "none"
          /\ findRet = Some({})
          /\ exitCode = Some(0)
          /\ NoWriteIssued
    /\ (entry = "reset" /\ inBuses = {}) =>
          /\ pc = "returned"
          /\ cret = Some(0)
          /\ cexc = "none"
          /\ NoWriteIssued

C10_Witness ==
    /\ MainDiscovered
    /\ devices = <<>>
    /\ findRet = Some({})
    /\ exitCode = Some(0)

\* C11: when the enumeration cannot be queried find_elo_buses raises
\* USBBusResetError, main returns 1 and nothing is written; a pass with no
\* matching device is no error.
C11_EnumerationFailureIsFatal ==
    /\ (entry = "main" /\ findExc = "USBBusResetError") =>
          /\ pc = "main_done"
          /\ exitCode = Some(1)
          /\ findRet = None
          /\ buses = EmptyDict
          /\ NoWriteIssued
    /\ (MainDiscovered /\ devices = <<>>) =>
          findExc = "none" /\ exitCode = Some(0)

C11_Witness ==
    /\ entry = "main"
    /\ findExc = "USBBusResetError"
    /\ exitCode = Some(1)

\* C12: a KeyboardInterrupt that arrives while the coordinator waits for a
\* result or sleeps ends in exit code 130, and the way out does not wait for
\* the writes still in flight.
C12_InterruptReturnsWithoutWaiting ==
    /\ (cexc = "KeyboardInterrupt" /\ pc = "shutdown") => ENABLED Shutdown
    /\ (cexc = "KeyboardInterrupt" /\ pc = "raised") =>
          ExitCodeOfException(cexc) = 130
    /\ (cexc = "KeyboardInterrupt" /\ pc = "main_done") =>
          exitCode = Some(130)

\* C13: the disable write and the enable write of one bus are never both
\* being executed by worker threads.
C13_NoOverlappingWritesPerBus ==
    \A b \in BusNums : ~(<<1, b>> \in Active /\ <<2, b>> \in Active)

\* C14: a bus whose control path was absent at its first sighting is not
\* checked again in the pass and never gets a descriptor.
C14_RejectedBusStaysRejected ==
    \A b \in BusNums :
        (checks[b] # <<>> /\ ~checks[b][1]) =>
            /\ Len(checks[b]) = 1
            /\ b \notin DOMAIN buses

\* C15: in one call every bus of the input has its disable write submitted
\* exactly once and its enable write submitted exactly once, whatever the
\* outcomes; no other bus has any.
C15_OneAttemptPerBusAndPhase ==
    /\ \A t \in DOMAIN attempts :
          /\ attempts[t] <= 1
          /\ t[2] \notin inBuses => attempts[t] = 0
    /\ pc \in {"p1_wait", "sleep", "p2_submit", "p2_wait", "returned"} =>
          \A b \in inBuses : attempts[<<1, b>>] = 1
    /\ pc \in {"p2_wait", "returned"} =>
          \A b \in inBuses : attempts[<<2, b>>] = 1

C15_Witness ==
    /\ pc = "returned"
    /\ \E a \in inBuses, b \in inBuses :
         /\ a # b
         /\ dres[a] = "OSError"
         /\ eres[a] = "OSError"
         /\ dres[b] = "TimeoutError"
         /\ eres[b] = "TimeoutError"
         /\ attempts[<<1, a>>] = 1 /\ attempts[<<2, a>>] = 1
         /\ attempts[<<1, b>>] = 1 /\ attempts[<<2, b>>] = 1

\* C16: when reset_buses_parallel returns, every bus it counted has "1" as
\* the content of its control file.
C16_CountedBusLeftAuthorized ==
    pc = "returned" =>
        \A b \in inBuses : eres[b] = "ok" => authorized[b] = "1"

\* C17: main uses the delay and the vendor id it was given, whatever their
\* values, and the defaults only when it was given None.
C17_SuppliedValuesAreUsed ==
    (entry = "main" /\ root = Some(TRUE)) =>
        /\ delay = (IF reset_delay = None THEN DEFAULT_RESET_DELAY
                    ELSE reset_delay[1])
        /\ vid = (IF vendor_id = None THEN ELO_VENDOR_ID ELSE vendor_id[1])

\* C18: when check_permissions is false main returns 1 with nothing
\* enumerated and nothing written; an enumeration, a discovery pass or a write
\* task in a run of main means check_permissions was true.
C18_PrivilegeGatesEverything ==
    /\ (entry = "main" /\ root = Some(FALSE)) =>
          /\ pc = "main_done"
          /\ exitCode = Some(1)
          /\ devices = <<>>
          /\ buses = EmptyDict
          /\ findRet = None
          /\ findExc = "none"
          /\ \A b \in BusNums : checks[b] = <<>>
          /\ NoWriteIssued
    /\ (entry = "main" /\ (\/ pc \in {"enumerate", "find_loop"}
                          \/ devices # <<>>
                          \/ findRet # None
                          \/ findExc # "none"
                          \/ ~NoWriteIssued)) =>
          root = Some(TRUE)

C18_Witness ==
    /\ entry = "main"
    /\ root = Some(FALSE)
    /\ pc = "main_done"
    /\ exitCode = Some(1)

====
